---- MODULE Spec2Model ----
(***************************************************************************)
(* Model of the unified AI invocation layer of claude-task-master:         *)
(* scripts/modules/openai-compatible-client.js (the OpenAI compatible      *)
(* client, the unified client and its provider selection).                 *)
(*                                                                         *)
(* JavaScript values are modelled as records with a tag.  Strings that the *)
(* code searches with String.includes are sequences of tokens; a needle    *)
(* occurs in a message when it is one of its tokens.                       *)
(***************************************************************************)
EXTENDS Integers, Sequences, FiniteSets, TLC

VARIABLES env, options, input, pc, provider, warned, resolved, request,
          sent, response, outcome, client, call

vars == <<env, options, input, pc, provider, warned, resolved, request,
          sent, response, outcome, client, call>>

(* Longest message sequence drawn as an input. *)
MaxLen == 2

-----------------------------------------------------------------------------
(* JavaScript values *)

UNDEF == "<undefined>"
NULL == "<null>"

(* A number n is written "#n", apart from the strings *)
ZERO == "#0"
NAN == "#NaN"

(* JavaScript truthiness: undefined, null, the empty string, 0 and NaN are
   falsy *)
Truthy(v) == v \notin {UNDEF, NULL, "", ZERO, NAN}

(* a || b *)
Or(a, b) == IF Truthy(a) THEN a ELSE b

ANTHROPIC == "anthropic"
OPENAI_COMPATIBLE == "openai_compatible"

AI_PROVIDER == {ANTHROPIC, OPENAI_COMPATIBLE}

(* An element of a message sequence: a {role, content} object, a bare
   string, or null. *)
Obj(r, c) == [k |-> "obj", role |-> r, content |-> c, str |-> UNDEF]
StrEl(s) == [k |-> "str", role |-> UNDEF, content |-> UNDEF, str |-> s]
NullEl == [k |-> "null", role |-> UNDEF, content |-> UNDEF, str |-> UNDEF]

(* The value of an element when it is used as a message's content *)
RawContent(e) ==
    CASE e.k = "str" -> e.str
      [] e.k = "null" -> NULL
      [] OTHER -> "<object " \o ToString(<<e.role, e.content>>) \o ">"

(* The messages value of a request: undefined, a string or an array *)
MsgUndef == [t |-> "undef", str |-> UNDEF, arr |-> <<>>]
MsgStr(s) == [t |-> "str", str |-> s, arr |-> <<>>]
MsgArr(a) == [t |-> "arr", str |-> UNDEF, arr |-> a]

(* The prompt values a caller passes as `messages` *)
InStr(s) == [t |-> "str", str |-> s, arr |-> <<>>, role |-> UNDEF,
             content |-> UNDEF, system |-> UNDEF, key |-> "none", inner |-> <<>>]
InNum(s) == [t |-> "num", str |-> s, arr |-> <<>>, role |-> UNDEF,
             content |-> UNDEF, system |-> UNDEF, key |-> "none", inner |-> <<>>]
InNull == [t |-> "null", str |-> UNDEF, arr |-> <<>>, role |-> UNDEF,
           content |-> UNDEF, system |-> UNDEF, key |-> "none", inner |-> <<>>]
InUndef == [t |-> "undef", str |-> UNDEF, arr |-> <<>>, role |-> UNDEF,
            content |-> UNDEF, system |-> UNDEF, key |-> "none", inner |-> <<>>]
InArr(a) == [t |-> "arr", str |-> UNDEF, arr |-> a, role |-> UNDEF,
             content |-> UNDEF, system |-> UNDEF, key |-> "none", inner |-> <<>>]
(* An object: its role, content and system properties, and an inner sequence
   held under the property named key ("messages", "turns" or "none") *)
InObj(r, c, s, key, inner) ==
    [t |-> "obj", str |-> UNDEF, arr |-> <<>>, role |-> r, content |-> c,
     system |-> s, key |-> key, inner |-> inner]

(* An object whose messages property is a string *)
InParams(s, text) ==
    [t |-> "obj", str |-> text, arr |-> <<>>, role |-> UNDEF, content |-> UNDEF,
     system |-> s, key |-> "text", inner |-> <<>>]

(* m.messages of an object, and its truthiness *)
MessagesOf(m) ==
    CASE m.key = "messages" -> MsgArr(m.inner)
      [] m.key = "text" -> MsgStr(m.str)
      [] OTHER -> MsgUndef

HasMessages(m) == m.key = "messages" \/ (m.key = "text" /\ Truthy(m.str))

(* JSON.stringify of a prompt value *)
JSONStringify(m) ==
    CASE m.t = "num" -> m.str
      [] m.t = "null" -> "null"
      [] m.t = "str" -> "\"" \o m.str \o "\""
      [] m.t = "arr" -> "[" \o ToString(m.arr) \o "]"
      [] OTHER -> "{" \o ToString(<<m.role, m.content, m.system, m.key, m.inner, m.str>>) \o "}"

(* An Error: axios sets response on a reply outside 2xx and request when no
   reply came; every error has a message. *)
Err(msg) == [hasResponse |-> FALSE, hasRequest |-> FALSE, status |-> "",
             data |-> <<>>, message |-> msg]
StatusErr(st, data, msg) ==
    [hasResponse |-> TRUE, hasRequest |-> TRUE, status |-> st, data |-> data,
     message |-> msg]
NoResponseErr(msg) ==
    [hasResponse |-> FALSE, hasRequest |-> TRUE, status |-> "", data |-> <<>>,
     message |-> msg]

(* String.includes on a tokenised message *)
Includes(msg, needle) == \E i \in 1..Len(msg) : msg[i] = needle

TypeErrorMsg == <<"TypeError: Cannot read properties of null or undefined">>

-----------------------------------------------------------------------------
(* openai-compatible-client.js *)

(* Property access e.role / e.content on a sequence element that is not null *)
RoleOf(e) == IF e.k = "obj" THEN e.role ELSE UNDEF
ContentOf(e) == IF e.k = "obj" THEN e.content ELSE UNDEF

HasNull(a) == \E i \in 1..Len(a) : a[i].k = "null"

(* messages[0].role && messages[0].content, for a non-empty array whose
   first element is not null *)
FirstIsMessage(a) == Truthy(RoleOf(a[1])) /\ Truthy(ContentOf(a[1]))

(* Role mapping of the Anthropic-specific branch *)
MapRoleToOpenAI(role) ==
    IF role = "human" THEN "user"
    ELSE IF role = "assistant" THEN "assistant"
    ELSE role

(* The forEach over messages.messages: messages lacking role or content are
   skipped *)
ConvertInner(inner) ==
    LET kept == SelectSeq(inner, LAMBDA e : Truthy(RoleOf(e)) /\ Truthy(ContentOf(e)))
    IN [i \in 1..Len(kept) |-> Obj(MapRoleToOpenAI(kept[i].role), kept[i].content)]

(* Array of strings: alternating user/assistant *)
AlternateRoles(a) ==
    [i \in 1..Len(a) |->
        Obj(IF (i - 1) % 2 = 0 THEN "user" ELSE "assistant", RawContent(a[i]))]

Converted(msgs) == [threw |-> FALSE, msgs |-> msgs]
ConvertThrew == [threw |-> TRUE, msgs |-> <<>>]

convertToOpenAIMessages(m) ==
    CASE m.t = "str" -> Converted(<<Obj("user", m.str)>>)
      [] m.t = "arr" ->
            IF Len(m.arr) > 0 /\ m.arr[1].k = "null" THEN ConvertThrew
            ELSE IF Len(m.arr) > 0 /\ FirstIsMessage(m.arr) THEN Converted(m.arr)
            ELSE Converted(AlternateRoles(m.arr))
      [] m.t \in {"null", "undef"} -> ConvertThrew
      [] OTHER ->
            IF Truthy(m.role) /\ Truthy(m.content)
            THEN Converted(<<Obj(m.role, m.content)>>)
            ELSE IF Truthy(m.system) /\ HasMessages(m)
            THEN IF HasNull(m.inner) THEN ConvertThrew
                 ELSE Converted(<<Obj("system", m.system)>> \o ConvertInner(m.inner))
            ELSE Converted(<<Obj("user", JSONStringify(m))>>)

(* The message handleOpenAICompatibleError returns *)
handleOpenAICompatibleError(error) ==
    IF Includes(error.message, "Network error")
    THEN <<"Connection error", ": Unable to reach the AI service">>
    ELSE IF Includes(error.message, "401") \/ Includes(error.message, "403")
    THEN <<"Authentication error", ": The API key provided is invalid or missing">>
    ELSE IF Includes(error.message, "model")
    THEN <<"Model error", ": The requested ", "model", " may not be available">>
    ELSE <<"Error communicating with AI service", ": ">> \o error.message

(* The catch block of invokeOpenAICompatibleChat *)
ChatCatch(error) ==
    IF error.hasResponse
    THEN Err(<<"API error", " (", error.status, "): ">> \o error.data)
    ELSE IF error.hasRequest
    THEN Err(<<"Network error", ": No response received">>)
    ELSE Err(<<"Error setting up request", ": ">> \o error.message)

(* getOpenAICompatibleConfig: throws when the base URL is missing *)
ConfigMissing(e) == ~Truthy(e.OPENAI_API_BASE_URL)
ConfigMissingMsg == <<"OPENAI_API_BASE_URL environment variable is missing">>

(* String.trim on the contents a reply may carry *)
Trim(s) ==
    CASE s = " Hi. " -> "Hi."
      [] s = "  " -> ""
      [] OTHER -> s

Returned(text) == [threw |-> FALSE, text |-> text, error |-> Err(<<>>)]
Thrown(error) == [threw |-> TRUE, text |-> UNDEF, error |-> error]

(* The reply handling of invokeOpenAICompatibleChat: the body of the try
   after the post, and the catch around it *)
ChatReply(r) ==
    CASE r.kind = "status" ->
            Thrown(ChatCatch(StatusErr(r.status, r.data, <<"Request failed with status code ", r.status>>)))
      [] r.kind = "no_response" ->
            Thrown(ChatCatch(NoResponseErr(<<"timeout">>)))
      [] r.kind = "setup_failure" ->
            Thrown(ChatCatch(Err(<<"Invalid URL">>)))
      [] OTHER ->
            IF r.shape = "content" /\ Truthy(r.content)
            THEN IF r.content = "<number>"
                 THEN Thrown(ChatCatch(Err(<<"TypeError: content.trim is not a function">>)))
                 ELSE Returned(Trim(r.content))
            ELSE Thrown(ChatCatch(Err(<<"Unexpected API response format">>)))

(* parseInt and parseFloat on the values the configuration may hold *)
parseInt(str) ==
    CASE str = "0.5" -> ZERO
      [] str = "many" -> NAN
      [] OTHER -> "#" \o str

parseFloat(str) ==
    CASE str = "many" -> NAN
      [] OTHER -> "#" \o str

(* The payload of invokeOpenAICompatibleChat(messages, options) *)
ChatPayload(msgs, o, e) ==
    [to |-> OPENAI_COMPATIBLE,
     system |-> UNDEF,
     messages |-> MsgArr(msgs),
     model |-> Or(o.model, e.MODEL),
     max_tokens |-> Or(o.maxTokens, parseInt(Or(e.MAX_TOKENS, "64000"))),
     temperature |-> Or(o.temperature, parseFloat(Or(e.TEMPERATURE, "0.2")))]

-----------------------------------------------------------------------------
(* The unified client *)

(* determineAIProvider with the two tests in the other order *)
determineAIProviderKeyFirst(e) ==
    IF Truthy(e.ANTHROPIC_API_KEY)
    THEN [provider |-> ANTHROPIC, level |-> "info"]
    ELSE IF Truthy(e.OPENAI_API_BASE_URL)
    THEN [provider |-> OPENAI_COMPATIBLE, level |-> "info"]
    ELSE [provider |-> OPENAI_COMPATIBLE, level |-> "warn"]

(* determineAIProvider: the provider and the level of the line it logs *)
determineAIProvider(e) ==
    IF Truthy(e.OPENAI_API_BASE_URL)
    THEN [provider |-> OPENAI_COMPATIBLE, level |-> "info"]
    ELSE IF Truthy(e.ANTHROPIC_API_KEY)
    THEN [provider |-> ANTHROPIC, level |-> "info"]
    ELSE [provider |-> OPENAI_COMPATIBLE, level |-> "warn"]

(* options.provider || process.env.AI_PROVIDER || determineAIProvider() *)
SelectProvider(o, e) ==
    Or(o.provider, Or(e.AI_PROVIDER, determineAIProvider(e).provider))

(* determineAIProvider runs, and logs, only when both operands before it
   are falsy *)
SelectWarns(o, e) ==
    /\ ~Truthy(o.provider)
    /\ ~Truthy(e.AI_PROVIDER)
    /\ determineAIProvider(e).level = "warn"

(* createAnthropicClient throws without a key *)
KeyMissing(e) == ~Truthy(e.ANTHROPIC_API_KEY)
KeyMissingMsg == <<"ANTHROPIC_API_KEY environment variable is required">>

Prompt(sys, msgs) == [threw |-> FALSE, system |-> sys, messages |-> msgs]
PromptThrew == [threw |-> TRUE, system |-> "", messages |-> MsgUndef]

(* messages.find((m) => m.role === 'system'): the first system message *)
FirstSystem(a) ==
    LET found == SelectSeq(a, LAMBDA e : RoleOf(e) = "system")
    IN IF Len(found) > 0 THEN found[1].content ELSE ""

(* filter((m) => m.role !== 'system').map(user -> human, others assistant) *)
ToAnthropicTurns(a) ==
    LET rest == SelectSeq(a, LAMBDA e : RoleOf(e) # "system")
    IN [i \in 1..Len(rest) |->
          Obj(IF RoleOf(rest[i]) = "user" THEN "human" ELSE "assistant",
              ContentOf(rest[i]))]

(* The message handling of invokeAIModel's Anthropic branch: systemPrompt
   and promptMessages *)
AnthropicPrompt(m) ==
    CASE m.t = "str" -> Prompt("", MsgStr(m.str))
      [] m.t = "arr" ->
            IF Len(m.arr) > 0 /\ m.arr[1].k = "null" THEN PromptThrew
            ELSE IF Len(m.arr) > 0 /\ FirstIsMessage(m.arr)
            THEN IF HasNull(m.arr) THEN PromptThrew
                 ELSE Prompt(FirstSystem(m.arr), MsgArr(ToAnthropicTurns(m.arr)))
            ELSE Prompt("", MsgArr(m.arr))
      [] m.t \in {"null", "undef"} -> PromptThrew
      [] OTHER ->
            IF Truthy(m.system) \/ HasMessages(m)
            THEN Prompt(Or(m.system, ""), MessagesOf(m))
            ELSE Prompt("", MsgUndef)

(* The argument of client.messages.create in the Anthropic branch *)
AnthropicPayload(prompt, o, e) ==
    [to |-> ANTHROPIC,
     system |-> prompt.system,
     messages |-> prompt.messages,
     model |-> Or(o.model, Or(e.MODEL, "claude-3-7-sonnet-20250219")),
     max_tokens |-> Or(o.maxTokens, parseInt(Or(e.MAX_TOKENS, "64000"))),
     temperature |-> Or(o.temperature, parseFloat(Or(e.TEMPERATURE, "0.2")))]

(* The reply handling of the Anthropic branch: response.content[0].text, or
   the error the client raises *)
AnthropicReply(r) ==
    CASE r.kind = "status" ->
            Thrown(StatusErr(r.status, r.data, <<r.status, " ">> \o r.data))
      [] r.kind = "no_response" -> Thrown(Err(<<"Connection error.">>))
      [] r.kind = "setup_failure" -> Thrown(Err(<<"Invalid URL">>))
      [] OTHER ->
            IF r.shape = "content" THEN Returned(r.content)
            ELSE Thrown(Err(TypeErrorMsg))

(* The catch block of invokeAIModel: the message of the error it throws *)
InvokeCatch(p, error) ==
    IF p = OPENAI_COMPATIBLE
    THEN handleOpenAICompatibleError(error)
    ELSE <<"Anthropic API error", ": ">> \o error.message

UnsupportedMsg(p) == <<"Unsupported AI provider: ", p>>

(* The role the adapter gives a message of params.messages *)
AdapterRole(e) == IF RoleOf(e) = "human" THEN "user" ELSE "assistant"

(* The message list the adapter's messages.create builds from params *)
AdapterMessages(params) ==
    IF params.t \in {"null", "undef"} THEN ConvertThrew
    ELSE IF params.t # "obj" THEN Converted(<<>>)
    ELSE IF params.key = "messages" /\ HasNull(params.inner) THEN ConvertThrew
    ELSE Converted(
            (IF Truthy(params.system) THEN <<Obj("system", params.system)>> ELSE <<>>)
            \o (CASE params.key = "messages" ->
                        [i \in 1..Len(params.inner) |->
                            Obj(AdapterRole(params.inner[i]), ContentOf(params.inner[i]))]
                   [] params.key = "text" -> <<Obj("user", params.str)>>
                   [] OTHER -> <<>>))

-----------------------------------------------------------------------------
(* The environment: configuration, callers' arguments, replies *)

Providers == {UNDEF, ANTHROPIC, OPENAI_COMPATIBLE, "grok"}

Models == {UNDEF, "gpt-x"}
TokenCounts == {UNDEF, ZERO, "#1000"}
Temperatures == {UNDEF, ZERO, "#0.7"}

Envs == [OPENAI_API_BASE_URL : {UNDEF, "http://localhost:11434/v1"},
         ANTHROPIC_API_KEY : {UNDEF, "sk-ant"},
         AI_PROVIDER : Providers,
         MODEL : {UNDEF, "llama3"},
         MAX_TOKENS : {UNDEF, "4096", "0"},
         TEMPERATURE : {UNDEF, "0.5", "0"}]

Options == [provider : Providers, model : Models, maxTokens : TokenCounts,
            temperature : Temperatures]

(* No model, token count or temperature given or configured *)
Plain(r) == \A f \in DOMAIN r \ {"provider", "OPENAI_API_BASE_URL",
                                   "ANTHROPIC_API_KEY", "AI_PROVIDER"} : r[f] = UNDEF

Configured(e) ==
    /\ e.OPENAI_API_BASE_URL # UNDEF
    /\ e.ANTHROPIC_API_KEY # UNDEF
    /\ e.AI_PROVIDER = UNDEF

SeqsUpTo(S, n) == UNION {[1..k -> S] : k \in 0..n}

Elems == {Obj("system", "A"), Obj("system", "B"), Obj("user", "hi"),
          Obj("assistant", "yo"), Obj("human", "hi"), Obj("user", UNDEF),
          StrEl("hi"), NullEl}

CoreElems == {Obj("user", "hi"), NullEl}

Scalars == {InStr("hello"), InNum("5"), InNull, InUndef}

CoreInputs ==
    Scalars
    \cup {InArr(a) : a \in SeqsUpTo(CoreElems, MaxLen)}
    \cup {InObj(UNDEF, UNDEF, "S", "messages", a) : a \in SeqsUpTo(CoreElems, MaxLen)}

AllInputs ==
    Scalars
    \cup {InArr(a) : a \in SeqsUpTo(Elems, MaxLen)}
    \cup {InObj(rc[1], rc[2], s, "none", <<>>) :
            rc \in {<<UNDEF, UNDEF>>, <<"user", "hi">>}, s \in {UNDEF, "", "S"}}
    \cup {InObj(rc[1], rc[2], s, key, a) :
            rc \in {<<UNDEF, UNDEF>>, <<"user", "hi">>}, s \in {UNDEF, "", "S"},
            key \in {"messages", "turns"}, a \in SeqsUpTo(Elems, MaxLen)}
    \cup {InParams(s, "hello") : s \in {UNDEF, "S"}}

Statuses == {"401", "403", "429", "500"}
Bodies == {<<>>, <<"rate limit exceeded">>, <<"no such ", "model">>,
           <<"request ", "401">>, <<"Network error">>}

Reply(kind, shape, status, data, content) ==
    [kind |-> kind, shape |-> shape, status |-> status, data |-> data,
     content |-> content]

NoReply == Reply("none", "", "", <<>>, UNDEF)

FailureReplies ==
    {Reply("status", "", st, d, UNDEF) : st \in Statuses, d \in Bodies}
    \cup {Reply("no_response", "", "", <<>>, UNDEF),
          Reply("setup_failure", "", "", <<>>, UNDEF)}

(* 2xx replies to POST /chat/completions: data, choices, choices[0],
   message or content may be missing; content may be any value *)
ChatReplies ==
    FailureReplies
    \cup {Reply("2xx", sh, "200", <<>>, UNDEF) :
            sh \in {"no_data", "no_choices", "empty_choices", "no_message"}}
    \cup {Reply("2xx", "content", "200", <<>>, c) :
            c \in {UNDEF, "", "Hi.", " Hi. ", "  ", "<number>"}}

(* 2xx replies to messages.create: content may be missing or empty, its
   first block may lack text *)
AnthropicReplies ==
    FailureReplies
    \cup {Reply("2xx", sh, "200", <<>>, UNDEF) : sh \in {"no_content", "empty_content"}}
    \cup {Reply("2xx", "content", "200", <<>>, c) : c \in {UNDEF, "Hi."}}

NoRequest == [to |-> "none", system |-> UNDEF, messages |-> MsgUndef,
              model |-> UNDEF, max_tokens |-> UNDEF, temperature |-> UNDEF]

Pending == [type |-> "pending", text |-> UNDEF, error |-> Err(<<>>), caught |-> Err(<<>>)]
ReturnedText(text) ==
    [type |-> "returned", text |-> text, error |-> Err(<<>>), caught |-> Err(<<>>)]
(* throw new Error(errorMessage), after catching `caught` *)
Threw(p, caught) ==
    [type |-> "threw", text |-> UNDEF, error |-> Err(InvokeCatch(p, caught)),
     caught |-> caught]

NoClient == [kind |-> "none", provider |-> UNDEF, error |-> Err(<<>>)]

(* A call of the adapter's messages.create: its request, the reply and what
   the caller gets *)
NoCall == [pc |-> "idle", request |-> NoRequest, response |-> NoReply,
           result |-> Returned(UNDEF)]

-----------------------------------------------------------------------------
(* One call of invokeAIModel(input, options), and createAIClient(options) *)

TypeOK ==
    /\ env \in Envs
    /\ options \in Options
    /\ pc \in {"start", "resolved", "awaiting", "done"}
    /\ provider \in Providers
    /\ warned \in BOOLEAN
    /\ resolved \in 0..1
    /\ sent \in [AI_PROVIDER -> 0..1]
    /\ response \in ChatReplies \cup AnthropicReplies \cup {NoReply}
    /\ outcome.type \in {"pending", "returned", "threw"}
    /\ client.kind \in {"none", "adapter", "anthropic", "threw"}
    /\ call.pc \in {"idle", "awaiting", "done"}

Start ==
    /\ pc = "start"
    /\ provider = UNDEF
    /\ warned = FALSE
    /\ resolved = 0
    /\ request = NoRequest
    /\ sent = [p \in AI_PROVIDER |-> 0]
    /\ response = NoReply
    /\ outcome = Pending
    /\ client = NoClient
    /\ call = NoCall

Init ==
    /\ env \in {e \in Envs : Plain(e)}
    /\ options \in {o \in Options : Plain(o)}
    /\ input \in CoreInputs
    /\ Start

(* Both providers configured, the provider named by the caller, every
   input shape *)
InitNorm ==
    /\ env \in {e \in Envs : Configured(e) /\ Plain(e)}
    /\ options \in {o \in Options : o.provider \in AI_PROVIDER /\ Plain(o)}
    /\ input \in AllInputs
    /\ Start

(* Both providers configured, the provider named by the caller, every
   combination of given and configured model, token count and temperature *)
InitOpts ==
    /\ env \in {e \in Envs : Configured(e)}
    /\ options \in {o \in Options : o.provider \in AI_PROVIDER}
    /\ input \in {InStr("hello"), InObj(UNDEF, UNDEF, "S", "messages", <<Obj("human", "hi")>>)}
    /\ Start

(* const provider = options.provider || process.env.AI_PROVIDER ||
   determineAIProvider().  The caller makes one call, of invokeAIModel or
   of the adapter. *)
ResolveProvider ==
    /\ pc = "start"
    /\ call.pc = "idle"
    /\ provider' = SelectProvider(options, env)
    /\ warned' = (warned \/ SelectWarns(options, env))
    /\ resolved' = resolved + 1
    /\ pc' = "resolved"
    /\ UNCHANGED <<env, options, input, request, sent, response, outcome, client, call>>

Fail(caught) ==
    /\ outcome' = Threw(provider, caught)
    /\ pc' = "done"
    /\ UNCHANGED <<request, sent>>

Post(payload) ==
    /\ request' = payload
    /\ sent' = [sent EXCEPT ![payload.to] = @ + 1]
    /\ pc' = "awaiting"
    /\ UNCHANGED outcome

(* The try block up to the awaited network call: message conversion, client
   construction, the request; a throw goes to the catch block *)
Prepare ==
    /\ pc = "resolved"
    /\ IF provider = OPENAI_COMPATIBLE
       THEN LET conv == convertToOpenAIMessages(input)
            IN IF conv.threw THEN Fail(Err(TypeErrorMsg))
               ELSE IF ConfigMissing(env) THEN Fail(ChatCatch(Err(ConfigMissingMsg)))
               ELSE Post(ChatPayload(conv.msgs, options, env))
       ELSE IF provider = ANTHROPIC
       THEN LET prompt == AnthropicPrompt(input)
            IN IF KeyMissing(env) THEN Fail(Err(KeyMissingMsg))
               ELSE IF prompt.threw THEN Fail(Err(TypeErrorMsg))
               ELSE Post(AnthropicPayload(prompt, options, env))
       ELSE Fail(Err(UnsupportedMsg(provider)))
    /\ UNCHANGED <<env, options, input, provider, warned, resolved, response, client, call>>

(* The awaited call settles: the text is returned, or the error goes through
   the catch block and is thrown to the caller *)
Settle(r) ==
    LET res == IF provider = OPENAI_COMPATIBLE THEN ChatReply(r) ELSE AnthropicReply(r)
    IN /\ response' = r
       /\ outcome' = IF res.threw THEN Threw(provider, res.error)
                     ELSE ReturnedText(res.text)
       /\ pc' = "done"
       /\ UNCHANGED <<env, options, input, provider, warned, resolved, request, sent, client, call>>

(* Receive with a failed request issued once more before the error is
   thrown *)
ReceiveRetrying ==
    /\ pc = "awaiting"
    /\ \E r \in (IF provider = OPENAI_COMPATIBLE THEN ChatReplies ELSE AnthropicReplies) :
          IF r.kind # "2xx" /\ sent[provider] < 2
          THEN /\ sent' = [sent EXCEPT ![provider] = @ + 1]
               /\ response' = r
               /\ UNCHANGED <<env, options, input, pc, provider, warned, resolved,
                              request, outcome, client, call>>
          ELSE Settle(r)

Receive ==
    /\ pc = "awaiting"
    /\ \E r \in (IF provider = OPENAI_COMPATIBLE THEN ChatReplies ELSE AnthropicReplies) :
          Settle(r)

(* createAIClient(options): the adapter, the Anthropic client, or a throw *)
CreateAIClient ==
    /\ pc = "start"
    /\ client.kind = "none"
    /\ LET p == SelectProvider(options, env)
       IN client' =
            IF p = OPENAI_COMPATIBLE
            THEN [kind |-> "adapter", provider |-> p, error |-> Err(<<>>)]
            ELSE IF p = ANTHROPIC
            THEN IF KeyMissing(env)
                 THEN [kind |-> "threw", provider |-> p,
                       error |-> Err(<<"Failed to create AI client", ": ">> \o KeyMissingMsg)]
                 ELSE [kind |-> "anthropic", provider |-> p, error |-> Err(<<>>)]
            ELSE [kind |-> "threw", provider |-> p,
                  error |-> Err(<<"Failed to create AI client", ": ">> \o UnsupportedMsg(p))]
    /\ warned' = (warned \/ SelectWarns(options, env))
    /\ UNCHANGED <<env, options, input, pc, provider, resolved, request, sent,
                   response, outcome, call>>

(* client.messages.create(params) on the adapter, up to the awaited call of
   invokeOpenAICompatibleChat; params are the input with the model,
   max_tokens and temperature of the options *)
AdapterCreate ==
    /\ pc = "start"
    /\ client.kind = "adapter"
    /\ call.pc = "idle"
    /\ LET built == AdapterMessages(input)
       IN call' =
            IF built.threw
            THEN [call EXCEPT !.pc = "done", !.result = Thrown(Err(TypeErrorMsg))]
            ELSE IF ConfigMissing(env)
            THEN [call EXCEPT !.pc = "done",
                              !.result = Thrown(ChatCatch(Err(ConfigMissingMsg)))]
            ELSE [call EXCEPT !.pc = "awaiting",
                              !.request = ChatPayload(built.msgs, options, env)]
    /\ UNCHANGED <<env, options, input, pc, provider, warned, resolved, request,
                   sent, response, outcome, client>>

(* The adapter's call settles: the text in an Anthropic-like response, or
   the error of invokeOpenAICompatibleChat as thrown *)
AdapterSettle ==
    /\ call.pc = "awaiting"
    /\ \E r \in ChatReplies :
          call' = [call EXCEPT !.pc = "done", !.response = r, !.result = ChatReply(r)]
    /\ UNCHANGED <<env, options, input, pc, provider, warned, resolved, request,
                   sent, response, outcome, client>>

Next ==
    \/ ResolveProvider
    \/ Prepare
    \/ Receive
    \/ CreateAIClient
    \/ AdapterCreate
    \/ AdapterSettle

Spec == Init /\ [][Next]_vars

SpecNorm == InitNorm /\ [][Next]_vars

SpecOpts == InitOpts /\ [][Next]_vars

-----------------------------------------------------------------------------
(* Vocabulary of the properties *)

Sum(f) == f[ANTHROPIC] + f[OPENAI_COMPATIBLE]

(* The provider the documented precedence names *)
Precedence(o, e) ==
    CASE o.provider # UNDEF -> o.provider
      [] e.AI_PROVIDER # UNDEF -> e.AI_PROVIDER
      [] e.OPENAI_API_BASE_URL # UNDEF -> OPENAI_COMPATIBLE
      [] e.ANTHROPIC_API_KEY # UNDEF -> ANTHROPIC
      [] OTHER -> OPENAI_COMPATIBLE

NothingConfigured(o, e) ==
    /\ o.provider = UNDEF
    /\ e.AI_PROVIDER = UNDEF
    /\ e.OPENAI_API_BASE_URL = UNDEF
    /\ e.ANTHROPIC_API_KEY = UNDEF

(* The error kind a thrown message announces *)
ErrorKind(msg) ==
    IF Len(msg) = 0 THEN "Unknown"
    ELSE CASE msg[1] = "Connection error" -> "NetworkUnreachable"
           [] msg[1] = "Authentication error" -> "Unauthorized"
           [] msg[1] = "Model error" -> "ModelUnavailable"
           [] msg[1] = "Rate limit error" -> "RateLimited"
           [] OTHER -> "Unknown"

Classified(msg) ==
    /\ Len(msg) > 0
    /\ msg[1] \in {"Connection error", "Authentication error", "Model error",
                   "Error communicating with AI service", "Anthropic API error"}

(* Every element is a {role, content} message with a role of `roles` *)
AllMessages(a, roles) ==
    \A i \in 1..Len(a) :
        a[i].k = "obj" /\ a[i].role \in roles /\ Truthy(a[i].content)

AllStrings(a) == \A i \in 1..Len(a) : a[i].k = "str"

(* The neutral role of a native role *)
Neutral(role) ==
    CASE role \in {"user", "human"} -> "User"
      [] role = "assistant" -> "Assistant"
      [] role = "system" -> "System"
      [] OTHER -> "none"

RECURSIVE SystemText(_)
SystemText(a) ==
    IF Len(a) = 0 THEN ""
    ELSE (IF a[1].role = "system" THEN a[1].content ELSE "") \o SystemText(Tail(a))

NonSystem(a) == SelectSeq(a, LAMBDA e : e.role # "system")

Requested == pc \in {"awaiting", "done"} /\ request.to # "none"

-----------------------------------------------------------------------------
(* C1: the provider used by invokeAIModel and by createAIClient is the first
   present of: options.provider, the pinned AI_PROVIDER, openai_compatible
   when OPENAI_API_BASE_URL is set, anthropic when ANTHROPIC_API_KEY is set,
   openai_compatible otherwise, the last with a warning and never with a
   throw from the selection. *)
C1_ProviderPrecedence ==
    /\ pc # "start" =>
          /\ provider = Precedence(options, env)
          /\ warned = NothingConfigured(options, env)
    /\ pc = "resolved" => outcome.type = "pending"
    /\ client.kind # "none" =>
          /\ client.provider = Precedence(options, env)
          /\ warned = NothingConfigured(options, env)

(* An explicit override wins over a pinned provider and a configured base URL *)
C1_Witness ==
    /\ pc = "resolved"
    /\ options.provider = ANTHROPIC
    /\ env.AI_PROVIDER = OPENAI_COMPATIBLE
    /\ env.OPENAI_API_BASE_URL # UNDEF
    /\ provider = ANTHROPIC
    /\ client.provider = ANTHROPIC

(* C2: a finished call has returned a text, or has thrown one classified
   error that is not the underlying exception; never both, never neither. *)
C2_TextOrClassifiedError ==
    pc = "done" =>
        \/ /\ outcome.type = "returned"
           /\ outcome.text \notin {UNDEF, NULL}
        \/ /\ outcome.type = "threw"
           /\ outcome.text = UNDEF
           /\ Classified(outcome.error.message)
           /\ outcome.error # outcome.caught

(* C3: a reply with status 429, from either client, surfaces as RateLimited
   with the status 429 kept in the error. *)
C3_RateLimited ==
    (pc = "done" /\ response.kind = "status" /\ response.status = "429") =>
        /\ outcome.type = "threw"
        /\ ErrorKind(outcome.error.message) = "RateLimited"
        /\ Includes(outcome.error.message, "429")

(* C4: a 2xx reply without choices[0].message.content makes
   invokeOpenAICompatibleChat fail with an error that is none of the status,
   connection and request-construction errors. *)
C4_MalformedResponseDistinct ==
    (/\ pc = "done"
     /\ provider = OPENAI_COMPATIBLE
     /\ response.kind = "2xx"
     /\ (response.shape # "content" \/ response.content \in {UNDEF, ""})) =>
        /\ outcome.type = "threw"
        /\ outcome.caught.message[1] \notin
              {"API error", "Network error", "Error setting up request"}

(* C5: for {system: S, messages: turns} sent to Anthropic, the request has
   system S and exactly the turns in order, User turns with role human,
   none with role system. *)
C5_StructuredToAnthropic ==
    (/\ Requested
     /\ provider = ANTHROPIC
     /\ input.t = "obj" /\ input.key = "messages" /\ Truthy(input.system)
     /\ ~Truthy(input.role)
     /\ AllMessages(input.inner, {"user", "human", "assistant"})) =>
        /\ request.system = input.system
        /\ request.messages.t = "arr"
        /\ Len(request.messages.arr) = Len(input.inner)
        /\ \A i \in 1..Len(input.inner) :
              /\ request.messages.arr[i].content = input.inner[i].content
              /\ request.messages.arr[i].role =
                    (IF Neutral(input.inner[i].role) = "User" THEN "human" ELSE "assistant")

(* C6: for an object with a system and/or a messages field sent to the
   OpenAI compatible API, the messages are one leading system message iff
   the system is non-empty, then the inner messages in order, human as
   user. *)
C6_StructuredToOpenAI ==
    (/\ Requested
     /\ provider = OPENAI_COMPATIBLE
     /\ input.t = "obj" /\ input.key # "turns"
     /\ (Truthy(input.system) \/ input.key = "messages")
     /\ ~Truthy(input.role)
     /\ AllMessages(input.inner, {"user", "human", "assistant"})) =>
        request.messages.arr =
            (IF Truthy(input.system) THEN <<Obj("system", input.system)>> ELSE <<>>)
            \o [i \in 1..Len(input.inner) |->
                  Obj(IF input.inner[i].role = "human" THEN "user" ELSE input.inner[i].role,
                      input.inner[i].content)]

(* C7: for a sequence of role/content messages sent to Anthropic, the system
   field is the concatenation of all system contents in order and the turns
   are the other messages in order, user as human. *)
C7_SystemMessagesMerged ==
    (/\ Requested
     /\ provider = ANTHROPIC
     /\ input.t = "arr" /\ Len(input.arr) > 0
     /\ AllMessages(input.arr, {"system", "user", "assistant"})) =>
        /\ request.system = SystemText(input.arr)
        /\ request.messages =
              MsgArr([i \in 1..Len(NonSystem(input.arr)) |->
                        Obj(IF NonSystem(input.arr)[i].role = "user" THEN "human" ELSE "assistant",
                            NonSystem(input.arr)[i].content)])

(* C8: an input of no recognised shape never makes the normalisation throw:
   the request carries one User message holding the stringified input. *)
C8_FallbackNeverThrows ==
    (/\ pc \in {"awaiting", "done"}
     /\ provider \in AI_PROVIDER
     /\ \/ input.t \in {"null", "undef", "num"}
        \/ /\ input.t = "obj" /\ input.key = "none"
           /\ ~Truthy(input.role) /\ ~Truthy(input.content) /\ ~Truthy(input.system)
        \/ input.t = "arr" /\ Len(input.arr) > 0 /\ input.arr[1].k = "null") =>
        /\ request.to = provider
        /\ request.messages.t = "arr"
        /\ Len(request.messages.arr) = 1
        /\ Neutral(request.messages.arr[1].role) = "User"
        /\ request.messages.arr[1].content = JSONStringify(input)

(* C9: for a string, a sequence of role/content turns, a sequence of strings
   and a structured object, and both providers, the turns sent have the
   length and the User/Assistant order of the input turns; strings
   alternate from User; a single string is one User turn. *)
C9_TurnOrderPreserved ==
    (/\ Requested
     /\ provider \in AI_PROVIDER
     /\ \/ input.t = "str"
        \/ input.t = "arr" /\ Len(input.arr) > 0
              /\ AllMessages(input.arr, {"user", "assistant"})
        \/ input.t = "arr" /\ Len(input.arr) > 0 /\ AllStrings(input.arr)
        \/ /\ input.t = "obj" /\ input.key = "messages" /\ Truthy(input.system)
           /\ ~Truthy(input.role)
           /\ AllMessages(input.inner, {"user", "human", "assistant"})) =>
        LET turns == SelectSeq(request.messages.arr, LAMBDA e : e.role # "system")
            want == CASE input.t = "str" -> <<"User">>
                      [] input.t = "obj" ->
                            [i \in 1..Len(input.inner) |-> Neutral(input.inner[i].role)]
                      [] AllStrings(input.arr) ->
                            [i \in 1..Len(input.arr) |->
                                IF i % 2 = 1 THEN "User" ELSE "Assistant"]
                      [] OTHER ->
                            [i \in 1..Len(input.arr) |-> Neutral(input.arr[i].role)]
        IN /\ request.messages.t = "arr"
           /\ [i \in 1..Len(turns) |-> Neutral(turns[i].role)] = want

(* C10: one call resolves one provider, issues at most one request, only to
   that provider's client, and issues none after a failed one. *)
C10_SingleRequest ==
    /\ resolved = (IF pc = "start" THEN 0 ELSE 1)
    /\ Sum(sent) <= 1
    /\ \A p \in AI_PROVIDER : sent[p] > 0 => (p = provider /\ request.to = p)
    /\ (pc = "done" /\ response.kind # "none") => sent[provider] = 1
    /\ (pc = "done" /\ response.kind = "none") => Sum(sent) = 0

(* A request failed with a status and the call ended with an error *)
C10_Witness ==
    /\ pc = "done"
    /\ response.kind = "status"
    /\ outcome.type = "threw"
    /\ sent[provider] = 1

(* The value the documented resolution gives: the option when set, else the
   configured default as a number, else the hardcoded default *)
Resolved(opt, conf, hard) ==
    IF opt # UNDEF THEN opt
    ELSE IF conf # UNDEF THEN "#" \o conf
    ELSE hard

(* C11: model, max_tokens and temperature of the payload, for both clients,
   are the caller's option whenever it is set, 0 included; the configured
   default only when the option is unset; 64000 and 0.2 only when both are
   unset. *)
C11_OptionsResolved ==
    (Requested /\ provider \in AI_PROVIDER) =>
        /\ options.model # UNDEF => request.model = options.model
        /\ (options.model = UNDEF /\ env.MODEL # UNDEF) => request.model = env.MODEL
        /\ request.max_tokens = Resolved(options.maxTokens, env.MAX_TOKENS, "#64000")
        /\ request.temperature = Resolved(options.temperature, env.TEMPERATURE, "#0.2")

(* C12: for params with a system string and a messages list of roles human,
   user and assistant, the list the adapter's messages.create passes to
   invokeOpenAICompatibleChat is the list convertToOpenAIMessages gives for
   {system, messages}: same length, order and roles. *)
C12_AdapterMatchesConvert ==
    (/\ call.pc \in {"awaiting", "done"}
     /\ call.request.to = OPENAI_COMPATIBLE
     /\ input.t = "obj" /\ input.key = "messages" /\ Truthy(input.system)
     /\ AllMessages(input.inner, {"human", "user", "assistant"})) =>
        call.request.messages.arr =
            convertToOpenAIMessages(
                InObj(UNDEF, UNDEF, input.system, "messages", input.inner)).msgs

====
